---- MODULE Spec2Model ----
(***************************************************************************)
(* Model of scripts/csv_to_md.py: csv_to_md(csv_file, md_file) reads a CSV *)
(* table, sorts it by PROFIT_USDT descending, writes a Markdown table and  *)
(* prints one console line.                                                *)
(*                                                                         *)
(* Numbers are dyadic rationals v / Den, which a binary float holds        *)
(* exactly, so the decimal formatting below is the formatting of the exact *)
(* value, as the '.2f' and '.1f' format specs do.  A text is a sequence of *)
(* tokens, a line of the output file is a sequence of cells (texts).       *)
(***************************************************************************)
EXTENDS Integers, Sequences, FiniteSets

\* largest number of data rows of the input table
MaxRows == 3

\* denominator of the cell values: value v stands for the float v / Den
Den == 256

\* content of a path that names no file
NoFile == <<<<<<"<no file>">>>>>>

Columns == {"COIN", "PROFIT_USDT", "MAX_DRAWDOWN_PCT", "TRADES", "STUCK_DAYS", "END_POSITIONS"}

\* the columns the f-string formats with an 'f' presentation type
FloatFormatted == {"PROFIT_USDT", "MAX_DRAWDOWN_PCT", "STUCK_DAYS"}

Mk(c, p, d, t, s, e) ==
  [COIN |-> c, PROFIT_USDT |-> p, MAX_DRAWDOWN_PCT |-> d, TRADES |-> t,
   STUCK_DAYS |-> s, END_POSITIONS |-> e]

\* input records: 10.5, -2.3125, 10.5 again (a tie), 100 and -1/256;
\* drawdowns and stuck-days include exact rounding ties (3.125, 0.375, 0.25, 0.75),
\* a value that rounds up (225/256) and the integer-valued 3
RowDomain ==
  { Mk("BTC", 2688, 800, 7, 768, 2),
    Mk("ETH", -592, 96, 12, 64, 0),
    Mk("SOL", 2688, 1, 3, 192, 1),
    Mk("XRP", 25600, 2560, 40, 0, 5),
    Mk("ADA", -1, 225, 1, 333, 0) }

RECURSIVE SeqsUpTo(_, _)
SeqsUpTo(S, n) ==
  IF n = 0 THEN {<<>>}
  ELSE LET shorter == SeqsUpTo(S, n - 1)
       IN shorter \cup {Append(s, x) : s \in {t \in shorter : Len(t) = n - 1}, x \in S}

\* the header sets of the inputs: all six columns, or one of them absent
ColumnSets == {Columns} \cup {Columns \ {c} : c \in Columns}

\* a CSV file on disk: its header, the columns that hold a cell that is not a
\* number, and its data rows
CsvFiles ==
  { [exists |-> TRUE, columns |-> cs, text |-> tx, rows |-> rs] :
      cs \in ColumnSets,
      tx \in {{}} \cup {{c} : c \in FloatFormatted},
      rs \in SeqsUpTo(RowDomain, MaxRows) }

\* csv_file names no file
MissingCsv == [exists |-> FALSE, columns |-> {}, text |-> {}, rows |-> <<>>]

CsvInputs ==
  {MissingCsv} \cup {f \in CsvFiles : f.text \subseteq f.columns /\ (f.text # {} => f.rows # <<>>)}

OldFiles == {NoFile, <<<<<<"previous content">>>>>>}

(***************************************************************************)
(* Text formatting                                                         *)
(***************************************************************************)
Digit == <<"0", "1", "2", "3", "4", "5", "6", "7", "8", "9">>

Abs(v) == IF v < 0 THEN -v ELSE v

RECURSIVE Pow10(_)
Pow10(p) == IF p = 0 THEN 1 ELSE 10 * Pow10(p - 1)

\* decimal digits of a natural number, no leading zeros
RECURSIVE DecStr(_)
DecStr(n) == IF n < 10 THEN <<Digit[n + 1]>> ELSE DecStr(n \div 10) \o <<Digit[(n % 10) + 1]>>

\* the last w decimal digits of n, zero-padded on the left
RECURSIVE FracStr(_, _)
FracStr(n, w) == IF w = 0 THEN <<>> ELSE FracStr(n \div 10, w - 1) \o <<Digit[(n % 10) + 1]>>

\* num / den (num >= 0) rounded to the nearest integer, exact ties to even
RoundHalfEven(num, den) ==
  LET q == num \div den
      r == num % den
  IN IF 2 * r < den THEN q
     ELSE IF 2 * r > den THEN q + 1
     ELSE IF q % 2 = 0 THEN q ELSE q + 1

\* mutant: the digits are cut off instead of rounded
FormatFixedTruncated(v, prec) ==
  LET m == (Abs(v) * Pow10(prec)) \div Den
  IN (IF v < 0 THEN <<"-">> ELSE <<>>)
       \o DecStr(m \div Pow10(prec)) \o <<".">> \o FracStr(m % Pow10(prec), prec)

\* format(v / Den, '.<prec>f'): the sign is kept when the digits round to zero
FormatFixed(v, prec) ==
  LET m == RoundHalfEven(Abs(v) * Pow10(prec), Den)
  IN (IF v < 0 THEN <<"-">> ELSE <<>>)
       \o DecStr(m \div Pow10(prec)) \o <<".">> \o FracStr(m % Pow10(prec), prec)

\* str(n) of an integer
FormatInt(n) == (IF n < 0 THEN <<"-">> ELSE <<>>) \o DecStr(Abs(n))

\* the f-string of one data row, cell by cell
RowLine(row) ==
  << <<row["COIN"]>>,
     <<"$">> \o FormatFixed(row["PROFIT_USDT"], 2),
     FormatFixed(row["MAX_DRAWDOWN_PCT"], 2) \o <<"%">>,
     FormatInt(row["TRADES"]),
     FormatFixed(row["STUCK_DAYS"], 1),
     FormatInt(row["END_POSITIONS"]) >>

HeadingLine == << <<"# Full Simulation Results (90 Days)">> >>
StrategyLine == << <<"**Strategy**: Buy Dip (Standard Dynamic Spacing)">> >>
BlankLine == << >>
TableHeaderLine ==
  << <<"COIN">>, <<"PROFIT ($)">>, <<"MAX DD (%)">>, <<"TRADES">>, <<"STUCK (Days)">>, <<"BAGS">> >>
AlignmentLine == << <<":---">>, <<":---">>, <<":---">>, <<":---">>, <<":---">>, <<":---">> >>

\* csv      the CSV file at csv_file, fixed during the run
\* oldFile  the content of md_file before the run
\* df       the table in memory
\* file     the content of md_file: the lines written through the handle,
\*          which is what the path holds once the handle is closed
\* handle   the output handle f: "none", "open" or "closed"
\* i        the position of the loop over the rows of df
\* console  the lines printed
\* exc      the exception raised in the try block, "none" if none
\* result   how the call ended: "running", "returned" or "raised"
\* pc       the statement to run next
VARIABLES csv, oldFile, df, file, handle, i, console, exc, result, pc

vars == <<csv, oldFile, df, file, handle, i, console, exc, result, pc>>

\* no table has been read yet
NoTable == [dtypes |-> [c \in {} |-> "object"], rows |-> <<>>]

Init ==
  /\ csv \in CsvInputs
  /\ oldFile \in OldFiles
  /\ df = NoTable
  /\ file = oldFile
  /\ handle = "none"
  /\ i = 1
  /\ console = <<>>
  /\ exc = "none"
  /\ result = "running"
  /\ pc = "read_csv"

(***************************************************************************)
(* pd.read_csv and DataFrame.sort_values                                   *)
(***************************************************************************)
\* the dtype read_csv infers for column c: a column with a cell that is not a
\* number stays text (object), and then every value of the column is a str
DtypeOf(f, c) ==
  IF c = "COIN" \/ c \in f.text THEN "object"
  ELSE IF c \in {"TRADES", "END_POSITIONS"} THEN "int64"
  ELSE "float64"

\* mutant: the last data row is lost
ReadTableDropsLast(f) ==
  [dtypes |-> [c \in f.columns |-> DtypeOf(f, c)],
   rows   |-> [k \in 1..(Len(f.rows) - (IF f.rows = <<>> THEN 0 ELSE 1)) |->
                 [index |-> k - 1, rec |-> [c \in f.columns |-> f.rows[k][c]]]]]

\* the DataFrame of file f: the columns of the header, a RangeIndex from 0
ReadTable(f) ==
  [dtypes |-> [c \in f.columns |-> DtypeOf(f, c)],
   rows   |-> [k \in 1..Len(f.rows) |->
                 [index |-> k - 1, rec |-> [c \in f.columns |-> f.rows[k][c]]]]]

RowOrders(n) == {p \in [1..n -> 1..n] : \A a, b \in 1..n : p[a] = p[b] => a = b}

\* mutant: ascending order
InOrderAscending(a, b) == a <= b

\* the key order of sort_values(ascending=False)
InOrder(a, b) == a >= b

\* mutant: the table is left in file order
SortedOrdersFileOrder(t) == {[k \in 1..Len(t.rows) |-> k]}

\* the row orders sort_values(by='PROFIT_USDT', ascending=False) can return: the
\* default kind is 'quicksort', which is not a stable sort, so any order of the
\* rows with non-increasing keys is a possible result.  A text column is
\* ordered as strings, an order the model does not track: any order.
SortedOrders(t) ==
  LET n == Len(t.rows)
  IN { p \in RowOrders(n) :
         t.dtypes["PROFIT_USDT"] = "object"
         \/ \A a \in 1..n : \A b \in 1..n :
              a < b => InOrder(t.rows[p[a]].rec["PROFIT_USDT"], t.rows[p[b]].rec["PROFIT_USDT"]) }

(***************************************************************************)
(* csv_to_md                                                               *)
(***************************************************************************)
\* the classes 'except Exception' catches, among those the body can raise
ExceptionClasses == {"FileNotFoundError", "KeyError", "ValueError", "OSError"}

\* mutant: except OSError
CaughtOSError(e) == e \in {"FileNotFoundError", "OSError"}

Caught(e) == e \in ExceptionClasses

\* mutant: no 'with' block, the handle is never closed
WithExitLeaks(h) == h

\* leaving the 'with' block closes the handle, on return and on exception
WithExit(h) == IF h = "open" THEN "closed" ELSE h

Raise(e) == exc' = e /\ pc' = "except"

\* line 5: df = pd.read_csv(csv_file)
ReadCsv ==
  /\ pc = "read_csv"
  /\ IF csv.exists
       THEN df' = ReadTable(csv) /\ pc' = "sort_values" /\ UNCHANGED exc
       ELSE Raise("FileNotFoundError") /\ UNCHANGED df
  /\ UNCHANGED <<csv, oldFile, file, handle, i, console, result>>

\* mutant: a missing sort key is skipped instead of raised
SortValuesSkipsMissingKey ==
  /\ pc = "sort_values"
  /\ IF "PROFIT_USDT" \in DOMAIN df.dtypes
       THEN \E p \in SortedOrders(df) :
              df' = [df EXCEPT !.rows = [k \in 1..Len(df.rows) |-> df.rows[p[k]]]]
       ELSE UNCHANGED df
  /\ pc' = "open"
  /\ UNCHANGED <<csv, oldFile, file, handle, i, console, exc, result>>

\* line 8: df = df.sort_values(by='PROFIT_USDT', ascending=False)
SortValues ==
  /\ pc = "sort_values"
  /\ IF "PROFIT_USDT" \in DOMAIN df.dtypes
       THEN /\ \E p \in SortedOrders(df) :
                 df' = [df EXCEPT !.rows = [k \in 1..Len(df.rows) |-> df.rows[p[k]]]]
            /\ pc' = "open"
            /\ UNCHANGED exc
       ELSE Raise("KeyError") /\ UNCHANGED df
  /\ UNCHANGED <<csv, oldFile, file, handle, i, console, result>>

\* mutant: the file is opened for appending
OpenAppends ==
  /\ pc = "open"
  /\ \/ /\ file' = (IF file = NoFile THEN <<>> ELSE file)
        /\ handle' = "open"
        /\ pc' = "write_heading"
        /\ UNCHANGED exc
     \/ /\ Raise("OSError")
        /\ UNCHANGED <<file, handle>>
  /\ UNCHANGED <<csv, oldFile, df, i, console, result>>

\* line 10: open(md_file, 'w') creates or truncates the file, or fails
Open ==
  /\ pc = "open"
  /\ \/ /\ file' = <<>>
        /\ handle' = "open"
        /\ pc' = "write_heading"
        /\ UNCHANGED exc
     \/ /\ Raise("OSError")
        /\ UNCHANGED <<file, handle>>
  /\ UNCHANGED <<csv, oldFile, df, i, console, result>>

\* f.write(ls) at an open handle, then on to position next; a failed write
\* leaves the 'with' block through its exit
WriteLines(ls, next) ==
  /\ handle = "open"
  /\ \/ /\ file' = file \o ls
        /\ pc' = next
        /\ UNCHANGED <<handle, exc>>
     \/ /\ Raise("OSError")
        /\ handle' = WithExit(handle)
        /\ UNCHANGED file
  /\ UNCHANGED <<csv, oldFile, df, i, console, result>>

\* line 11
WriteHeading ==
  /\ pc = "write_heading"
  /\ WriteLines(<<HeadingLine>>, "write_strategy")

\* line 12: the strategy line and the blank line after it
WriteStrategy ==
  /\ pc = "write_strategy"
  /\ WriteLines(<<StrategyLine, BlankLine>>, "write_table_header")

\* line 13
WriteTableHeader ==
  /\ pc = "write_table_header"
  /\ WriteLines(<<TableHeaderLine>>, "write_alignment")

\* line 14
WriteAlignment ==
  /\ pc = "write_alignment"
  /\ WriteLines(<<AlignmentLine>>, "write_rows")

\* the f-string reads and formats the cells in this order
FieldOrder == <<"COIN", "PROFIT_USDT", "MAX_DRAWDOWN_PCT", "TRADES", "STUCK_DAYS", "END_POSITIONS">>

\* what reading and formatting cell c of a row raises
CellError(t, c) ==
  IF c \notin DOMAIN t.dtypes THEN "KeyError"
  ELSE IF c \in FloatFormatted /\ t.dtypes[c] = "object" THEN "ValueError"
  ELSE "none"

\* the first exception of the f-string of a row, "none" when it evaluates
RowError(t) ==
  LET bad == {k \in DOMAIN FieldOrder : CellError(t, FieldOrder[k]) # "none"}
  IN IF bad = {} THEN "none"
     ELSE CellError(t, FieldOrder[CHOOSE k \in bad : \A m \in bad : k <= m])

\* mutant: a row that cannot be formatted is skipped
WriteRowSkipsBadRows ==
  /\ pc = "write_rows"
  /\ handle = "open"
  /\ i <= Len(df.rows)
  /\ IF RowError(df) # "none"
       THEN /\ i' = i + 1
            /\ UNCHANGED <<file, handle, exc, pc>>
       ELSE \/ /\ file' = Append(file, RowLine(df.rows[i].rec))
               /\ i' = i + 1
               /\ UNCHANGED <<handle, exc, pc>>
            \/ /\ Raise("OSError")
               /\ handle' = WithExit(handle)
               /\ UNCHANGED <<file, i>>
  /\ UNCHANGED <<csv, oldFile, df, console, result>>

\* lines 16-17: one iteration of the loop over df.iterrows()
WriteRow ==
  /\ pc = "write_rows"
  /\ handle = "open"
  /\ i <= Len(df.rows)
  /\ IF RowError(df) # "none"
       THEN /\ Raise(RowError(df))
            /\ handle' = WithExit(handle)
            /\ UNCHANGED <<file, i>>
       ELSE \/ /\ file' = Append(file, RowLine(df.rows[i].rec))
               /\ i' = i + 1
               /\ UNCHANGED <<handle, exc, pc>>
            \/ /\ Raise("OSError")
               /\ handle' = WithExit(handle)
               /\ UNCHANGED <<file, i>>
  /\ UNCHANGED <<csv, oldFile, df, console, result>>

\* the loop is exhausted: the 'with' block ends
EndWith ==
  /\ pc = "write_rows"
  /\ i > Len(df.rows)
  /\ handle' = WithExit(handle)
  /\ pc' = "print"
  /\ UNCHANGED <<csv, oldFile, df, file, i, console, exc, result>>

\* mutant: the header row is counted too
SuccessLineCountsHeader(t) == [kind |-> "Successfully wrote", rows |-> Len(t.rows) + 1, e |-> "none"]

\* the console line of line 19
SuccessLine(t) == [kind |-> "Successfully wrote", rows |-> Len(t.rows), e |-> "none"]

\* the console line of line 22
ErrorLine(e) == [kind |-> "Error", rows |-> 0, e |-> e]

\* line 19
PrintSuccess ==
  /\ pc = "print"
  /\ console' = Append(console, SuccessLine(df))
  /\ result' = "returned"
  /\ pc' = "done"
  /\ UNCHANGED <<csv, oldFile, df, file, handle, i, exc>>

\* lines 21-22: the handler; an exception it does not catch leaves csv_to_md
Except ==
  /\ pc = "except"
  /\ IF Caught(exc)
       THEN console' = Append(console, ErrorLine(exc)) /\ result' = "returned"
       ELSE result' = "raised" /\ UNCHANGED console
  /\ pc' = "done"
  /\ UNCHANGED <<csv, oldFile, df, file, handle, i, exc>>

Next ==
  \/ ReadCsv
  \/ SortValues
  \/ Open
  \/ WriteHeading
  \/ WriteStrategy
  \/ WriteTableHeader
  \/ WriteAlignment
  \/ WriteRow
  \/ EndWith
  \/ PrintSuccess
  \/ Except

Spec == Init /\ [][Next]_vars

(***************************************************************************)
(* Reading the output file back                                            *)
(***************************************************************************)
HeaderBlock == <<HeadingLine, StrategyLine, BlankLine, TableHeaderLine, AlignmentLine>>

\* the lines after the header block
DataRows(f) == SubSeq(f, Len(HeaderBlock) + 1, Len(f))

Range(s) == {s[k] : k \in DOMAIN s}

BagOf(s) == [x \in Range(s) |-> Cardinality({k \in DOMAIN s : s[k] = x})]

DigitValue(ch) == CHOOSE d \in 0..9 : Digit[d + 1] = ch

RECURSIVE DigitsValue(_)
DigitsValue(ds) ==
  IF ds = <<>> THEN 0
  ELSE 10 * DigitsValue(SubSeq(ds, 1, Len(ds) - 1)) + DigitValue(ds[Len(ds)])

\* text is an optional '-', one or more digits, '.', and exactly prec digits
IsFixed(text, prec) ==
  LET body == IF text # <<>> /\ text[1] = "-" THEN Tail(text) ELSE text
  IN /\ Len(body) >= prec + 2
     /\ body[Len(body) - prec] = "."
     /\ \A k \in DOMAIN body : k # Len(body) - prec => body[k] \in Range(Digit)

\* the number a fixed-point text denotes, in units of 10^-prec
FixedValue(text) ==
  LET neg  == text[1] = "-"
      body == IF neg THEN Tail(text) ELSE text
      mag  == DigitsValue(SelectSeq(body, LAMBDA ch : ch # "."))
  IN IF neg THEN -mag ELSE mag

\* text shows v / Den to prec decimals: no other prec-digit decimal is nearer
Shows(text, v, prec) ==
  /\ IsFixed(text, prec)
  /\ 2 * Abs(FixedValue(text) * Den - v * Pow10(prec)) <= Den
  /\ (v < 0) = (text[1] = "-")

\* the profit shown in a data row, in cents
ProfitShown(line) == FixedValue(Tail(line[2]))

Succeeded == pc = "done" /\ console # <<>> /\ console[1].kind = "Successfully wrote"

Failed == pc = "done" /\ console # <<>> /\ console[1].kind = "Error"

(***************************************************************************)
(* Properties                                                              *)
(***************************************************************************)
\* C1: when csv_to_md reaches its success message, the output file is the
\* header block followed by exactly one data row per input row, and the data
\* rows are, as a multiset, the rows of the input: none added, dropped or
\* duplicated.
RowCountPreserved ==
  Succeeded =>
    /\ Len(file) = Len(HeaderBlock) + Len(csv.rows)
    /\ SubSeq(file, 1, Len(HeaderBlock)) = HeaderBlock
    /\ \A k \in DOMAIN DataRows(file) : DataRows(file)[k] \notin Range(HeaderBlock)
    /\ BagOf(DataRows(file)) = BagOf([k \in DOMAIN csv.rows |-> RowLine(csv.rows[k])])

\* a successful run over an input that holds the same record twice
RowCountPreservedWitness ==
  /\ Succeeded
  /\ \E a, b \in DOMAIN csv.rows : a < b /\ csv.rows[a] = csv.rows[b]
  /\ Len(DataRows(file)) = Len(csv.rows)

\* C2: the data rows are in PROFIT_USDT descending order: the profits read
\* back from the rows, top to bottom, never increase, and neither do the
\* profits of the records they were written from.
ProfitDescending ==
  Succeeded =>
    \A k \in 1..(Len(DataRows(file)) - 1) :
      /\ ProfitShown(DataRows(file)[k]) >= ProfitShown(DataRows(file)[k + 1])
      /\ df.rows[k].rec["PROFIT_USDT"] >= df.rows[k + 1].rec["PROFIT_USDT"]

\* a successful run over an input whose rows were not in descending order
ProfitDescendingWitness ==
  /\ Succeeded
  /\ Len(DataRows(file)) >= 3
  /\ \E a, b \in DOMAIN csv.rows :
       a < b /\ csv.rows[a]["PROFIT_USDT"] < csv.rows[b]["PROFIT_USDT"]

\* the PROFIT_USDT of the input row that output row k was read from
InputProfit(k) == csv.rows[df.rows[k].index + 1]["PROFIT_USDT"]

FailureNeverPropagates ==
  /\ result # "raised"
  /\ pc = "done" => result = "returned"
  /\ (pc = "done" /\ exc # "none") => console = <<ErrorLine(exc)>>
  /\ (pc = "done" /\ ~csv.exists) => exc = "FileNotFoundError"

\* a run that ended on a value that is not a number, at the first row write
FailureNeverPropagatesWitness ==
  /\ pc = "done"
  /\ exc = "ValueError"
  /\ result = "returned"
  /\ csv.text # {}

\* C5: without the PROFIT_USDT column the run fails at the sort, before the
\* output path is opened: the path is neither created nor truncated, and the
\* run ends on the error message.
MissingSortKeyLeavesOutput ==
  (csv.exists /\ "PROFIT_USDT" \notin csv.columns) =>
    /\ file = oldFile
    /\ handle = "none"
    /\ pc = "done" => (console = <<ErrorLine("KeyError")>> /\ result = "returned")

\* such a run has ended, over an output file that existed before
MissingSortKeyLeavesOutputWitness ==
  /\ pc = "done"
  /\ csv.exists
  /\ "PROFIT_USDT" \notin csv.columns
  /\ csv.rows # <<>>
  /\ oldFile # NoFile
  /\ file = oldFile

\* C6: the output handle, once opened, is closed before csv_to_md returns, on
\* success and on every error; it is open only while the block is running.
HandleClosedOnExit ==
  /\ pc = "done" => handle # "open"
  /\ handle = "open" =>
       pc \in {"write_heading", "write_strategy", "write_table_header", "write_alignment", "write_rows"}
  /\ (pc \in {"print", "except", "done"} /\ file # oldFile) => handle = "closed"

\* a run that ended on a write error after at least one data row was written
HandleClosedOnExitWitness ==
  /\ pc = "done"
  /\ exc = "OSError"
  /\ i >= 2
  /\ handle = "closed"

\* C7: a run prints exactly one console line, the success line or the error
\* line; the success line comes after every row is written and the file is
\* closed, and reports the number of data rows in the file.
OneConsoleLine ==
  /\ Len(console) <= 1
  /\ pc = "done" => Len(console) = 1
  /\ console # <<>> => pc = "done"
  /\ Succeeded =>
       /\ exc = "none"
       /\ handle = "closed"
       /\ i = Len(df.rows) + 1
       /\ console[1].rows = Len(DataRows(file))
       /\ console[1].rows = Len(csv.rows)

\* a successful run reported a count of two or more rows
OneConsoleLineWitness ==
  /\ Succeeded
  /\ console[1].rows >= 2
  /\ Len(file) = Len(HeaderBlock) + console[1].rows

\* C8 as stated: whenever one of the six required columns is absent, for every
\* number of data rows, the run ends on the error line.
MissingColumnAlwaysFails ==
  (pc = "done" /\ csv.exists /\ csv.columns # Columns) => Failed

\* C8 amended: the run ends on the error line whenever PROFIT_USDT is absent,
\* and whenever another required column is absent and there is at least one
\* data row; a header-only input that lacks a column other than PROFIT_USDT
\* ends on the success line with 0 rows.
MissingColumnFailsOnFirstRow ==
  /\ (pc = "done" /\ csv.exists /\ csv.columns # Columns
        /\ ("PROFIT_USDT" \notin csv.columns \/ csv.rows # <<>>))
       => (Failed /\ exc # "none")
  /\ (pc = "done" /\ csv.exists /\ "PROFIT_USDT" \in csv.columns /\ csv.rows = <<>>
        /\ exc # "OSError")
       => (Succeeded /\ console[1].rows = 0 /\ file = HeaderBlock)

\* a run over an input with data rows and no TRADES column has ended, at the
\* first row write
MissingColumnFailsOnFirstRowWitness ==
  /\ Failed
  /\ csv.exists
  /\ "TRADES" \notin csv.columns
  /\ csv.rows # <<>>
  /\ handle = "closed"
  /\ exc = "KeyError"

\* C9: in every data row PROFIT_USDT is shown as '$' and the value rounded to
\* two decimals, MAX_DRAWDOWN_PCT as the value rounded to two decimals and '%',
\* STUCK_DAYS with one decimal, also when it is a whole number.
NumericCellsPrecision ==
  Succeeded =>
    \A k \in DOMAIN DataRows(file) :
      LET line == DataRows(file)[k]
          rec  == df.rows[k].rec
      IN /\ Len(line) = 6
         /\ line[2][1] = "$"
         /\ Shows(Tail(line[2]), rec["PROFIT_USDT"], 2)
         /\ line[3][Len(line[3])] = "%"
         /\ Shows(SubSeq(line[3], 1, Len(line[3]) - 1), rec["MAX_DRAWDOWN_PCT"], 2)
         /\ Shows(line[5], rec["STUCK_DAYS"], 1)

\* a successful run wrote a row whose STUCK_DAYS is the whole number 3, as 3.0,
\* and a row whose drawdown 225/256 rounds up to 0.88
NumericCellsPrecisionWitness ==
  /\ Succeeded
  /\ \E k \in DOMAIN DataRows(file) :
       df.rows[k].rec["STUCK_DAYS"] = 3 * Den /\ DataRows(file)[k][5] = <<"3", ".", "0">>
  /\ \E k \in DOMAIN DataRows(file) :
       df.rows[k].rec["MAX_DRAWDOWN_PCT"] = 225
         /\ DataRows(file)[k][3] = <<"0", ".", "8", "8", "%">>

\* the header lines written when the run is at position p
HeaderLinesAt(p) ==
  CASE p = "write_heading" -> 0
    [] p = "write_strategy" -> 1
    [] p = "write_table_header" -> 3
    [] p = "write_alignment" -> 4
    [] OTHER -> 5

\* C10: at every point of a run the output file either has the content it had
\* before the run (the path is not opened yet) or holds a prefix of the
\* document: the header lines written so far and then the first k rows of the
\* sorted table.  A failure in formatting sorted row k+1 leaves the header
\* block and the k rows before it, and the previous content is gone.
FileIsPrefixOfDocument ==
  /\ handle = "none" => file = oldFile
  /\ handle # "none" =>
       \E h \in {0, 1, 3, 4, 5} :
         /\ handle = "open" => h = HeaderLinesAt(pc)
         /\ i > 1 => h = 5
         /\ i - 1 <= Len(df.rows)
         /\ file = SubSeq(HeaderBlock, 1, h) \o [k \in 1..(i - 1) |-> RowLine(df.rows[k].rec)]
  /\ (pc = "done" /\ exc \in {"KeyError", "ValueError"} /\ handle = "closed") =>
       /\ file = HeaderBlock \o [k \in 1..(i - 1) |-> RowLine(df.rows[k].rec)]
       /\ file # oldFile

\* a run over an existing output file has ended on a row that could not be
\* formatted: the file holds the header block, the previous content is gone
FileIsPrefixOfDocumentWitness ==
  /\ pc = "done"
  /\ exc \in {"KeyError", "ValueError"}
  /\ handle = "closed"
  /\ oldFile # NoFile
  /\ file = HeaderBlock
  /\ Len(df.rows) >= 2
====
